---- MODULE Spec2Model ----
(***************************************************************************)
(* One run of the teapot evaluation driver (src/teapot/main.py): get_args  *)
(* followed by main.  The command line is drawn in Init; every step of the *)
(* run is one action.  Real numbers are fixed-point integers: the score    *)
(* 1.0 is the integer One.                                                 *)
(***************************************************************************)
EXTENDS Integers, Sequences, FiniteSets, TLC

\* ------------------------------------------------------------------ bounds
MaxLines == 2      \* a text file holds 0..MaxLines lines
MaxCustom == 2     \* at most MaxCustom --custom-scores-source paths
One == 100         \* fixed-point representation of the score 1.0

\* ------------------------------------------------------- program constants
DefaultScale == 100    \* --scale default
PctFactor == 100       \* success_fraction*100
FmtStats == 3          \* :.3f
FmtPct == 2            \* :.2f

None == "None"
PathArgs == <<"src", "adv_src", "ref", "out", "adv_out">>

\* ------------------------------------------------------------- environment
\* Files that exist in the working directory.
InputFiles == {"a.txt"}
PluginFiles == {"plugin.py", "broken.py"}
InputPaths == InputFiles \cup {"nofile.txt"}
CustomPaths == PluginFiles \cup {"nofile.py"}
ScoreNames == {"custom", "bogus"}
ScaleVals == {1}
\* Scores a scorer can produce per sample (spec.md 3: floats in [0,1]).
ScoreVals == {0, One \div 2, One}

abspath(p) == "/cwd/" \o p

isfile(p) == p \in InputFiles \/ p \in {abspath(f) : f \in PluginFiles}

\* Scorer registry before any custom source is loaded (teapot.scorers).
BuiltinScorers == {"chrf"}

\* Names a custom scorer source registers when it is loaded.
Registers(path) == IF path = abspath("plugin.py") THEN {"custom"} ELSE {}

\* A custom scorer source whose top-level code raises while loading.
LoadFails(path) == path = abspath("broken.py")

\* ------------------------------------------------------------ pure helpers
RECURSIVE Sum(_)
Sum(s) == IF s = <<>> THEN 0 ELSE Head(s) + Sum(Tail(s))

Min(a, b) == IF a < b THEN a ELSE b

SeqsUpTo(S, n) == UNION {[1..k -> S] : k \in 0..n}

\* argparse: an option given once yields its value, an omitted one its default
OptValue(given, default) == IF given = <<>> THEN default ELSE given[1]

\* parser.parse_known_args() / parser.parse_args() on the command line
ParseArgs(cmd) ==
    [src |-> OptValue(cmd.src, None),
     adv_src |-> OptValue(cmd.adv_src, None),
     ref |-> OptValue(cmd.ref, None),
     out |-> OptValue(cmd.out, None),
     adv_out |-> OptValue(cmd.adv_out, None),
     score |-> OptValue(cmd.score, "chrf"),
     scale |-> OptValue(cmd.scale, DefaultScale),
     terse |-> cmd.terse,
     custom_scores_source |-> cmd.custom_scores_source]

SourceSideOrMut(a) == a.src # None \/ a.adv_src # None
SourceSideOf(a) == a.src # None /\ a.adv_src # None

TargetSideNoAdvMut(a) == a.ref # None /\ a.out # None
TargetSideOf(a) == a.ref # None /\ a.out # None /\ a.adv_out # None

NeitherSide(ss, ts) == ~(ss \/ ts)

GetPath(a, name) ==
    CASE name = "src" -> a.src
      [] name = "adv_src" -> a.adv_src
      [] name = "ref" -> a.ref
      [] name = "out" -> a.out
      [] name = "adv_out" -> a.adv_out

FileMissingActiveOnlyMut(a, name) ==
    /\ GetPath(a, name) # None
    /\ ~isfile(GetPath(a, name))
    /\ IF name \in {"src", "adv_src"} THEN SourceSideOf(a) ELSE TargetSideOf(a)
FileMissing(a, name) == GetPath(a, name) # None /\ ~isfile(GetPath(a, name))

CustomMissingNeverMut(path) == FALSE
CustomMissing(path) == ~isfile(path)

Event(op, arg) == [op |-> op, arg |-> arg]

\* ------------------------------------------------------------------- state
VARIABLES
    argv,          \* the command line: each option is <<>> or <<value>>
    pc,            \* position in get_args / main
    args,          \* the parsed namespace
    source_side, target_side,
    idx,           \* loop index of the two for-loops of get_args
    registry,      \* scorers.scorers
    log,           \* calls made so far into os.path, teapot.scorers, teapot.utils
    err, errName, errPath, errCounts,   \* the raised error and what its message names
    s_src, d_tgt, N,
    src_stats, tgt_stats,
    success, success_fraction,
    stdout

vars == <<argv, pc, args, source_side, target_side, idx, registry, log,
          err, errName, errPath, errCounts, s_src, d_tgt, N,
          src_stats, tgt_stats, success, success_fraction, stdout>>

getargs_vars == <<args, source_side, target_side, idx, registry>>
err_vars == <<err, errName, errPath, errCounts>>
main_vars == <<s_src, d_tgt, N, src_stats, tgt_stats, success, success_fraction, stdout>>

NoStats == [avg |-> 0, std |-> 0, p5 |-> 0, p95 |-> 0]

CommandLines ==
    [src : {<<>>} \cup {<<p>> : p \in InputPaths},
     adv_src : {<<>>} \cup {<<p>> : p \in InputPaths},
     ref : {<<>>} \cup {<<p>> : p \in InputPaths},
     out : {<<>>} \cup {<<p>> : p \in InputPaths},
     adv_out : {<<>>} \cup {<<p>> : p \in InputPaths},
     score : {<<>>} \cup {<<n>> : n \in ScoreNames},
     scale : {<<>>} \cup {<<v>> : v \in ScaleVals},
     terse : BOOLEAN,
     custom_scores_source : SeqsUpTo(CustomPaths, MaxCustom)]

EmptyCommandLine ==
    [src |-> <<>>, adv_src |-> <<>>, ref |-> <<>>, out |-> <<>>, adv_out |-> <<>>,
     score |-> <<>>, scale |-> <<>>, terse |-> FALSE, custom_scores_source |-> <<>>]

Init ==
    /\ argv \in CommandLines
    /\ pc = "parse_known_args"
    /\ args = ParseArgs(EmptyCommandLine)
    /\ source_side = FALSE
    /\ target_side = FALSE
    /\ idx = 1
    /\ registry = BuiltinScorers
    /\ log = <<>>
    /\ err = None /\ errName = None /\ errPath = None /\ errCounts = <<>>
    /\ s_src = <<>> /\ d_tgt = <<>> /\ N = -1
    /\ src_stats = NoStats /\ tgt_stats = NoStats
    /\ success = <<>> /\ success_fraction = 0
    /\ stdout = <<>>

Raise(kind, name, path, counts) ==
    /\ pc' = "failed"
    /\ err' = kind
    /\ errName' = name
    /\ errPath' = path
    /\ errCounts' = counts

\* ---------------------------------------------------------------- get_args
\* args, _ = parser.parse_known_args(); source_side / target_side; the
\* "neither side" check.
ParseKnownArgs ==
    /\ pc = "parse_known_args"
    /\ args' = ParseArgs(argv)
    /\ source_side' = SourceSideOf(args')
    /\ target_side' = TargetSideOf(args')
    /\ IF NeitherSide(source_side', target_side')
       THEN Raise("ConfigurationError", None, None, <<>>)
       ELSE pc' = "check_files" /\ UNCHANGED err_vars
    /\ UNCHANGED <<argv, idx, registry, log, main_vars>>

\* One iteration of `for name in ["src", "adv_src", "ref", "out", "adv_out"]`.
CheckFile ==
    /\ pc = "check_files"
    /\ idx <= Len(PathArgs)
    /\ LET name == PathArgs[idx]
           filename == GetPath(args, name)
       IN /\ log' = IF filename # None
                    THEN Append(log, Event("isfile", filename))
                    ELSE log
          /\ IF FileMissing(args, name)
             THEN Raise("FileNotFoundError", name, filename, <<>>) /\ idx' = idx
             ELSE /\ UNCHANGED err_vars
                  /\ IF idx = Len(PathArgs)
                     THEN pc' = "load_custom" /\ idx' = 1
                     ELSE pc' = pc /\ idx' = idx + 1
    /\ UNCHANGED <<argv, args, source_side, target_side, registry, main_vars>>

\* One iteration of `for source_file in args.custom_scores_source`.
LoadCustomSource ==
    /\ pc = "load_custom"
    /\ idx <= Len(args.custom_scores_source)
    /\ LET path == abspath(args.custom_scores_source[idx])
       IN IF CustomMissing(path)
          THEN /\ Raise("ConfigurationError", "custom_scores_source", path, <<>>)
               /\ log' = Append(log, Event("isfile", path))
               /\ UNCHANGED <<registry, idx>>
          ELSE /\ log' = log \o <<Event("isfile", path),
                                  Event("read_custom_scorers_source", path)>>
               /\ IF LoadFails(path)
                  THEN /\ Raise("LoadError", "custom_scores_source", path, <<>>)
                       /\ UNCHANGED <<registry, idx>>
                  ELSE /\ registry' = registry \cup Registers(path)
                       /\ idx' = idx + 1
                       /\ pc' = pc
                       /\ UNCHANGED err_vars
    /\ UNCHANGED <<argv, args, source_side, target_side, main_vars>>

\* scorers.get_scorer_class(args.score); scorer_class.add_args(parser);
\* args = parser.parse_args(); return.
ResolveScorer ==
    /\ pc = "load_custom"
    /\ idx > Len(args.custom_scores_source)
    /\ IF args.score \notin registry
       THEN /\ Raise("UnknownScorerError", "score", args.score, <<>>)
            /\ log' = Append(log, Event("get_scorer_class", args.score))
            /\ args' = args
       ELSE /\ log' = log \o <<Event("get_scorer_class", args.score),
                               Event("add_args", args.score),
                               Event("parse_args", "")>>
            /\ args' = ParseArgs(argv)
            /\ pc' = "scorer_from_args"
            /\ UNCHANGED err_vars
    /\ UNCHANGED <<argv, source_side, target_side, idx, registry, main_vars>>

\* -------------------------------------------------- teapot.utils, scorers
\* Fixed-point integer square root (floor).
ISqrt(n) == CHOOSE r \in 0..(One + 1) : r * r <= n /\ n < (r + 1) * (r + 1)

Mean(s) == Sum(s) \div Len(s)

\* Population standard deviation.
Std(s) == ISqrt(Sum([i \in 1..Len(s) |-> (s[i] - Mean(s)) * (s[i] - Mean(s))]) \div Len(s))

\* Linear-interpolation percentile over the sorted sequence.
Percentile(s, q) ==
    LET sorted == SortSeq(s, <)
        rank == q * (Len(s) - 1)
        lo == rank \div 100
        hi == Min(lo + 1, Len(s) - 1)
    IN sorted[lo + 1] + ((sorted[hi + 1] - sorted[lo + 1]) * (rank % 100)) \div 100

\* utils.stats(seq) -> (mean, std, p5, p95); defined for non-empty seq only.
Stats(s) == [avg |-> Mean(s), std |-> Std(s), p5 |-> Percentile(s, 5), p95 |-> Percentile(s, 95)]

\* Values rd_score can produce per sample: 1 - score(adv)/score(orig) may be negative.
RdVals == ScoreVals \cup {0 - (One \div 2)}

\* scorer.name
ScorerName(score) == score

\* ----------------------------------------------------------------- printing
Line(label, vals, prec) == [label |-> label, vals |-> vals, prec |-> prec]

ScaledNoScaleMut(x, scale) == x
Scaled(x, scale) == x * scale

Pct(x) == x * PctFactor

SourceLinesAlwaysLongMut(terse, name, st, scale) ==
    <<Line("Source side preservation (" \o name \o "):", <<>>, 0),
      Line("Mean:", <<Scaled(st.avg, scale)>>, FmtStats),
      Line("Std:", <<Scaled(st.std, scale)>>, FmtStats),
      Line("5%-95%:", <<Scaled(st.p5, scale), Scaled(st.p95, scale)>>, FmtStats)>>
SourceLines(terse, name, st, scale) ==
    IF terse
    THEN <<Line("", <<Scaled(st.avg, scale)>>, FmtStats)>>
    ELSE <<Line("Source side preservation (" \o name \o "):", <<>>, 0),
           Line("Mean:", <<Scaled(st.avg, scale)>>, FmtStats),
           Line("Std:", <<Scaled(st.std, scale)>>, FmtStats),
           Line("5%-95%:", <<Scaled(st.p5, scale), Scaled(st.p95, scale)>>, FmtStats)>>

Separator == Line("--------", <<>>, 0)

TargetLines(terse, ss, name, st, scale) ==
    IF terse
    THEN <<Line("", <<Scaled(st.avg, scale)>>, FmtStats)>>
    ELSE (IF ss THEN <<Separator>> ELSE <<>>) \o
         <<Line("Target side degradation (relative decrease in " \o name \o "):", <<>>, 0),
           Line("Mean:", <<Scaled(st.avg, scale)>>, FmtStats),
           Line("Std:", <<Scaled(st.std, scale)>>, FmtStats),
           Line("5%-95%:", <<Scaled(st.p5, scale), Scaled(st.p95, scale)>>, FmtStats)>>

SuccessLines(terse, frac) ==
    IF terse
    THEN <<Line("", <<Pct(frac)>>, FmtStats)>>
    ELSE <<Separator, Line("Success percentage: %", <<Pct(frac)>>, FmtPct)>>

\* --------------------------------------------------------------------- main
SuccessOfGeqMut(s, d) == IF s + d >= One THEN One ELSE 0
SuccessOf(s, d) == IF s + d > One THEN One ELSE 0

CountMismatchNeverMut(n, d) == FALSE
CountMismatchShorterMut(n, d) == n # -1 /\ Len(d) < n
CountMismatch(n, d) == n # -1 /\ Len(d) # n

\* zip(s_src, d_tgt): pairs up to the shorter sequence
Zip(s, d) == [i \in 1..Min(Len(s), Len(d)) |-> <<s[i], d[i]>>]

\* scorer = scorers.scorer_from_args(args); N = None
ScorerFromArgs ==
    /\ pc = "scorer_from_args"
    /\ log' = Append(log, Event("scorer_from_args", args.score))
    /\ N' = -1
    /\ pc' = "source_side"
    /\ UNCHANGED <<argv, getargs_vars, err_vars, s_src, d_tgt, src_stats, tgt_stats,
                   success, success_fraction, stdout>>

\* if source_side: score, N, stats, print
SourceSide ==
    /\ pc = "source_side"
    /\ IF ~source_side
       THEN /\ pc' = "target_side"
            /\ UNCHANGED <<log, err_vars, s_src, N, src_stats, stdout>>
       ELSE \E nAdv \in 0..MaxLines, nSrc \in 0..MaxLines :
            LET loaded == log \o <<Event("loadtxt", args.adv_src),
                                   Event("loadtxt", args.src),
                                   Event("score", args.score)>>
            IN IF nAdv # nSrc
               THEN /\ Raise("LengthMismatchError", "score", None, <<nAdv, nSrc>>)
                    /\ log' = loaded
                    /\ UNCHANGED <<s_src, N, src_stats, stdout>>
               ELSE \E s \in [1..nAdv -> ScoreVals] :
                    /\ s_src' = s
                    /\ N' = Len(s)
                    /\ log' = Append(loaded, Event("stats", "s_src"))
                    /\ IF Len(s) = 0
                       THEN /\ Raise("EmptyInputError", "stats", None, <<>>)
                            /\ UNCHANGED <<src_stats, stdout>>
                       ELSE /\ src_stats' = Stats(s)
                            /\ stdout' = stdout \o SourceLines(args.terse,
                                   ScorerName(args.score), src_stats', args.scale)
                            /\ pc' = "target_side"
                            /\ UNCHANGED err_vars
    /\ UNCHANGED <<argv, getargs_vars, d_tgt, tgt_stats, success, success_fraction>>

\* if target_side: rd_score, size check, stats, print
TargetSide ==
    /\ pc = "target_side"
    /\ IF ~target_side
       THEN /\ pc' = "success"
            /\ UNCHANGED <<log, err_vars, d_tgt, N, tgt_stats, stdout>>
       ELSE \E nAdv \in 0..MaxLines, nOut \in 0..MaxLines, nRef \in 0..MaxLines :
            LET loaded == log \o <<Event("loadtxt", args.adv_out),
                                   Event("loadtxt", args.out),
                                   Event("loadtxt", args.ref),
                                   Event("rd_score", args.score)>>
            IN IF nAdv # nOut \/ nAdv # nRef
               THEN /\ Raise("LengthMismatchError", "rd_score", None, <<nAdv, nOut, nRef>>)
                    /\ log' = loaded
                    /\ UNCHANGED <<d_tgt, N, tgt_stats, stdout>>
               ELSE \E d \in [1..nAdv -> RdVals] :
                    /\ d_tgt' = d
                    /\ IF CountMismatch(N, d)
                       THEN /\ Raise("SampleCountMismatchError", None, None, <<N, Len(d)>>)
                            /\ log' = loaded
                            /\ UNCHANGED <<N, tgt_stats, stdout>>
                       ELSE /\ N' = IF N = -1 THEN Len(d) ELSE N
                            /\ log' = Append(loaded, Event("stats", "d_tgt"))
                            /\ IF Len(d) = 0
                               THEN /\ Raise("EmptyInputError", "stats", None, <<>>)
                                    /\ UNCHANGED <<tgt_stats, stdout>>
                               ELSE /\ tgt_stats' = Stats(d)
                                    /\ stdout' = stdout \o TargetLines(args.terse,
                                           source_side, ScorerName(args.score),
                                           tgt_stats', args.scale)
                                    /\ pc' = "success"
                                    /\ UNCHANGED err_vars
    /\ UNCHANGED <<argv, getargs_vars, s_src, src_stats, success, success_fraction>>

\* if target_side and source_side: success vector, fraction, print
BothSided ==
    /\ pc = "success"
    /\ IF target_side /\ source_side
       THEN /\ success' = [i \in DOMAIN Zip(s_src, d_tgt) |->
                              SuccessOf(Zip(s_src, d_tgt)[i][1], Zip(s_src, d_tgt)[i][2])]
            /\ log' = Append(log, Event("success", ""))
            /\ IF N = 0
               THEN /\ Raise("ZeroDivisionError", None, None, <<>>)
                    /\ UNCHANGED <<success_fraction, stdout>>
               ELSE /\ success_fraction' = Sum(success') \div N
                    /\ stdout' = stdout \o SuccessLines(args.terse, success_fraction')
                    /\ pc' = "done"
                    /\ UNCHANGED err_vars
       ELSE /\ pc' = "done"
            /\ UNCHANGED <<log, err_vars, success, success_fraction, stdout>>
    /\ UNCHANGED <<argv, getargs_vars, s_src, d_tgt, N, src_stats, tgt_stats>>

Next ==
    \/ ParseKnownArgs
    \/ CheckFile
    \/ LoadCustomSource
    \/ ResolveScorer
    \/ ScorerFromArgs
    \/ SourceSide
    \/ TargetSide
    \/ BothSided

Spec == Init /\ [][Next]_vars

\* ------------------------------------------------------ observation helpers
Supplied(name) == GetPath(argv, name) # <<>>
SrcComplete == Supplied("src") /\ Supplied("adv_src")
TgtComplete == Supplied("ref") /\ Supplied("out") /\ Supplied("adv_out")
Did(op) == \E i \in DOMAIN log : log[i].op = op
DidOn(op, arg) == \E i \in DOMAIN log : log[i] = Event(op, arg)
Started == pc # "parse_known_args"
PastFileChecks == pc \notin {"parse_known_args", "check_files"}
Terse == argv.terse
Scale == IF argv.scale = <<>> THEN DefaultScale ELSE argv.scale[1]
RECURSIVE Values(_)
Values(lines) == IF lines = <<>> THEN <<>> ELSE Head(lines).vals \o Values(Tail(lines))

\* C1: when neither side is fully specified the run fails with the
\* configuration error and nothing has been checked, loaded, looked up or read.
C1_NeitherSideFailsBeforeIO ==
    (Started /\ ~SrcComplete /\ ~TgtComplete) =>
        /\ pc = "failed"
        /\ err = "ConfigurationError"
        /\ errPath = None
        /\ log = <<>>
        /\ stdout = <<>>

C1_Witness ==
    /\ pc = "failed" /\ err = "ConfigurationError" /\ log = <<>>
    /\ Supplied("src") /\ ~Supplied("adv_src")
    /\ Supplied("ref") /\ Supplied("out") /\ ~Supplied("adv_out")

\* C2: the source-side pipeline runs iff src and adv-src were both supplied,
\* the target-side pipeline runs iff ref, out and adv-out were all supplied;
\* no pipeline reads an omitted input.
C2_PipelinesActiveIffInputs ==
    /\ Did("score") => SrcComplete
    /\ Did("rd_score") => TgtComplete
    /\ ~DidOn("loadtxt", None)
    /\ pc = "done" =>
          Len(SelectSeq(log, LAMBDA e : e.op = "loadtxt")) =
              (IF SrcComplete THEN 2 ELSE 0) + (IF TgtComplete THEN 3 ELSE 0)
    /\ pc \in {"target_side", "success", "done"} =>
          (SrcComplete <=> (Did("score") /\ DidOn("stats", "s_src") /\ stdout # <<>>))
    /\ pc \in {"success", "done"} =>
          (TgtComplete <=> (Did("rd_score") /\ DidOn("stats", "d_tgt") /\ stdout # <<>>))

C2_Witness ==
    /\ pc = "done"
    /\ Supplied("src") /\ ~Supplied("adv_src") /\ TgtComplete
    /\ ~Did("score") /\ Did("rd_score")

\* C3: the success metric is computed only when both pipelines ran; sample i
\* is a success (1.0) iff s_src[i] + d_tgt[i] > 1 strictly, and the success
\* fraction is the number of successes divided by N.
C3_SuccessVector ==
    /\ Did("success") =>
          /\ Did("score") /\ DidOn("stats", "s_src")
          /\ Did("rd_score") /\ DidOn("stats", "d_tgt")
    /\ (pc = "done" /\ Did("success")) =>
          /\ DOMAIN success = 1..N
          /\ \A i \in 1..N :
                success[i] = IF s_src[i] + d_tgt[i] > One THEN One ELSE 0
          /\ success_fraction =
                (Cardinality({i \in 1..N : s_src[i] + d_tgt[i] > One}) * One) \div N
    /\ (pc = "done" /\ ~Did("success")) => (success = <<>> /\ ~(SrcComplete /\ TgtComplete))

C3_Witness ==
    /\ pc = "done" /\ Did("success")
    /\ \E i \in 1..N : s_src[i] + d_tgt[i] = One /\ success[i] = 0
    /\ \E i \in 1..N : success[i] = One

\* C4: with both pipelines running and differing score counts the run fails
\* with the sample-count mismatch error naming both counts, before target
\* statistics and success; with only the target side N = len(d_tgt).
C4_SampleCountMismatch ==
    /\ (SrcComplete /\ TgtComplete /\ Did("rd_score") /\ err # "LengthMismatchError"
          /\ Len(s_src) # Len(d_tgt)) =>
          /\ pc = "failed"
          /\ err = "SampleCountMismatchError"
          /\ errCounts = <<Len(s_src), Len(d_tgt)>>
          /\ ~DidOn("stats", "d_tgt") /\ tgt_stats = NoStats
          /\ ~Did("success") /\ success = <<>>
          /\ Len(stdout) = IF Terse THEN 1 ELSE 4
    /\ err = "SampleCountMismatchError" => (SrcComplete /\ TgtComplete)
    /\ (~SrcComplete /\ pc \in {"success", "done"}) => N = Len(d_tgt)

C4_Witness ==
    /\ pc = "failed" /\ err = "SampleCountMismatchError"
    /\ Len(s_src) > Len(d_tgt) /\ Len(d_tgt) > 0
    /\ stdout # <<>>

\* C5 as stated: every provided path that names no existing file makes
\* get_args fail with the error naming that argument and path.
C5_Original ==
    (PastFileChecks /\ \E name \in {"src", "adv_src", "ref", "out", "adv_out"} :
         Supplied(name) /\ ~isfile(GetPath(argv, name)[1])) =>
        /\ pc = "failed"
        /\ err = "FileNotFoundError"
        /\ Supplied(errName)
        /\ errPath = GetPath(argv, errName)[1]

\* C5 (amended): when at least one side is fully specified, a provided path
\* that names no existing file (also one of an inactive side) makes get_args
\* fail with the error naming that argument and path, before any custom
\* source is loaded, the scorer resolved or constructed, or anything scored;
\* an omitted argument never triggers the error.
C5_MissingFileFailsFast ==
    /\ (PastFileChecks /\ (SrcComplete \/ TgtComplete)
          /\ \E name \in {"src", "adv_src", "ref", "out", "adv_out"} :
                Supplied(name) /\ ~isfile(GetPath(argv, name)[1])) =>
          /\ pc = "failed"
          /\ err = "FileNotFoundError"
          /\ Supplied(errName)
          /\ errPath = GetPath(argv, errName)[1]
          /\ ~isfile(errPath)
          /\ ~Did("read_custom_scorers_source") /\ ~Did("get_scorer_class")
          /\ ~Did("add_args") /\ ~Did("scorer_from_args")
          /\ ~Did("loadtxt") /\ ~Did("score") /\ ~Did("rd_score")
          /\ registry = BuiltinScorers
          /\ stdout = <<>>
    /\ err = "FileNotFoundError" => (Supplied(errName) /\ ~isfile(GetPath(argv, errName)[1]))

C5_Witness ==
    /\ pc = "failed" /\ err = "FileNotFoundError"
    /\ errName = "src" /\ ~Supplied("adv_src") /\ TgtComplete
    /\ argv.custom_scores_source # <<>>

\* C6: a successful terse run prints only bare numbers: source mean if the
\* source side is active, target mean if the target side is active, success
\* fraction if both; so 1 line or 3 lines, never 2.
C6_TerseOutput ==
    (pc = "done" /\ Terse) =>
        /\ stdout =
              (IF SrcComplete THEN <<Line("", <<src_stats.avg * Scale>>, FmtStats)>> ELSE <<>>)
              \o (IF TgtComplete THEN <<Line("", <<tgt_stats.avg * Scale>>, FmtStats)>> ELSE <<>>)
              \o (IF SrcComplete /\ TgtComplete
                  THEN <<Line("", <<success_fraction * PctFactor>>, FmtStats)>> ELSE <<>>)
        /\ Len(stdout) = IF SrcComplete /\ TgtComplete THEN 3 ELSE 1
        /\ \A i \in DOMAIN stdout : stdout[i].label = "" /\ Len(stdout[i].vals) = 1

C6_Witness ==
    /\ pc = "done" /\ Terse /\ Len(stdout) = 3
    /\ src_stats.avg # tgt_stats.avg

\* C7 as stated: every printed number, the success fraction included, is the
\* unscaled value times --scale.
C7_Original ==
    (pc = "done" /\ SrcComplete /\ TgtComplete) =>
        stdout[Len(stdout)].vals = <<success_fraction * Scale>>

ExpectedStatValues(st) ==
    IF Terse THEN <<st.avg * Scale>>
    ELSE <<st.avg * Scale, st.std * Scale, st.p5 * Scale, st.p95 * Scale>>

\* C7 (amended): --scale (default 100) multiplies every printed statistic of
\* the two sides (mean, std, 5% and 95% quantiles); the success fraction is
\* printed times 100 whatever the scale.
C7_ScaleMultipliesStats ==
    /\ Started => args.scale = Scale
    /\ pc = "done" =>
          Values(stdout) =
              (IF SrcComplete THEN ExpectedStatValues(src_stats) ELSE <<>>)
              \o (IF TgtComplete THEN ExpectedStatValues(tgt_stats) ELSE <<>>)
              \o (IF SrcComplete /\ TgtComplete
                  THEN <<success_fraction * PctFactor>> ELSE <<>>)

C7_Witness ==
    /\ pc = "done" /\ SrcComplete /\ TgtComplete /\ ~Terse
    /\ Scale # DefaultScale
    /\ success_fraction > 0 /\ src_stats.std > 0 /\ tgt_stats.p5 # 0

Taxonomy ==
    {"ConfigurationError", "UnknownScorerError", "FileNotFoundError",
     "LengthMismatchError", "SampleCountMismatchError", "EmptyInputError"}

\* C8: a run that ends in an error of the taxonomy has printed no result line.
C8_NoPartialReport ==
    (pc = "failed" /\ err \in Taxonomy) => stdout = <<>>

\* C9: custom scorer sources are checked and loaded in the order given,
\* before the scorer name is resolved and the final parse; a missing path
\* fails with the configuration error at that path, earlier paths loaded,
\* later ones not, scorer class never looked up.
CustomSources == argv.custom_scores_source
IsCustomEvent(e) ==
    \/ e.op = "read_custom_scorers_source"
    \/ (e.op = "isfile" /\ e.arg \in {abspath(p) : p \in CustomPaths})
CustomEvents == SelectSeq(log, IsCustomEvent)
RECURSIVE LoadedUpTo(_)
LoadedUpTo(k) ==
    IF k = 0 THEN <<>>
    ELSE LoadedUpTo(k - 1) \o <<Event("isfile", abspath(CustomSources[k])),
                                Event("read_custom_scorers_source", abspath(CustomSources[k]))>>
FirstIndex(op) == CHOOSE i \in DOMAIN log : log[i].op = op /\ \A j \in 1..(i - 1) : log[j].op # op
BadPaths == {k \in DOMAIN CustomSources : CustomSources[k] \notin {"plugin.py"}}
FirstBad == CHOOSE k \in BadPaths : \A j \in BadPaths : k <= j
ReachedCustomLoop ==
    /\ pc \notin {"parse_known_args", "check_files", "load_custom"}
    /\ ~(err = "ConfigurationError" /\ errName = None)
    /\ err # "FileNotFoundError"

C9_CustomSourcesInOrder ==
    /\ \E k \in 0..Len(CustomSources) :
          \/ CustomEvents = LoadedUpTo(k)
          \/ /\ k < Len(CustomSources)
             /\ CustomEvents = Append(LoadedUpTo(k), Event("isfile", abspath(CustomSources[k + 1])))
    /\ Did("get_scorer_class") =>
          /\ CustomEvents = LoadedUpTo(Len(CustomSources))
          /\ \A i \in DOMAIN log : IsCustomEvent(log[i]) => i < FirstIndex("get_scorer_class")
          /\ registry = BuiltinScorers \cup
                (IF \E k \in DOMAIN CustomSources : CustomSources[k] = "plugin.py"
                 THEN {"custom"} ELSE {})
    /\ Did("parse_args") => FirstIndex("get_scorer_class") < FirstIndex("parse_args")
    /\ (Did("get_scorer_class") /\ argv.score = <<"custom">>
          /\ \E k \in DOMAIN CustomSources : CustomSources[k] = "plugin.py") =>
          (err # "UnknownScorerError" /\ DidOn("add_args", "custom"))
    /\ (ReachedCustomLoop /\ BadPaths # {} /\ CustomSources[FirstBad] = "nofile.py") =>
          /\ pc = "failed"
          /\ err = "ConfigurationError"
          /\ errPath = abspath(CustomSources[FirstBad])
          /\ CustomEvents = Append(LoadedUpTo(FirstBad - 1), Event("isfile", errPath))
          /\ registry = BuiltinScorers \cup
                (IF FirstBad > 1 THEN {"custom"} ELSE {})
          /\ ~Did("get_scorer_class") /\ ~Did("add_args") /\ ~Did("parse_args")
    /\ (err = "ConfigurationError" /\ errName = "custom_scores_source") =>
          (BadPaths # {} /\ errPath = abspath("nofile.py"))

C9_Witness ==
    /\ pc = "failed" /\ err = "ConfigurationError" /\ errName = "custom_scores_source"
    /\ Len(CustomSources) >= 2
    /\ CustomSources[1] = "plugin.py" /\ CustomSources[2] = "nofile.py"
    /\ "custom" \in registry
    /\ argv.score = <<"custom">>

\* C10: when the success fraction is computed len(s_src) = len(d_tgt) = N,
\* no sample is dropped by the pairing, and for N >= 1 the fraction is k/N
\* with 0 <= k <= N, lies in [0, 1], and is 1 iff every sample succeeds.
C10_SuccessFractionRange ==
    Did("success") =>
        /\ Len(s_src) = N /\ Len(d_tgt) = N /\ Len(success) = N
        /\ DOMAIN Zip(s_src, d_tgt) = DOMAIN s_src
        /\ (N >= 1 /\ pc = "done") =>
              /\ \E k \in 0..N : success_fraction = (k * One) \div N
              /\ 0 <= success_fraction /\ success_fraction <= One
              /\ (success_fraction = One) <=> (\A i \in 1..N : s_src[i] + d_tgt[i] > One)

C10_Witness ==
    /\ pc = "done" /\ Did("success") /\ N >= 2
    /\ 0 < success_fraction /\ success_fraction < One
====
